---- MODULE Spec2Model ----
(***************************************************************************)
(* GeoProdViz2D: the interactive state machine of src/scripts/main.js.     *)
(*                                                                         *)
(* Numbers.  A JavaScript number is modelled as an integer count of units  *)
(* of 0.0005, so that 1.0 is One = 2000 units and the equality tolerance   *)
(* 0.001 of Vector2.equals is Epsilon = 2 units: two values one unit apart *)
(* are different numbers that equals() reports equal.  NaN is a separate   *)
(* value that every comparison rejects and every arithmetic operation      *)
(* propagates.                                                             *)
(*                                                                         *)
(* Objects.  this.state is a REFERENCE to a VectorVisualizerState object.  *)
(* heap maps every such object that the program can reach (the object made *)
(* by the constructor or by resetVectors, called "own", and the example    *)
(* constants at the end of main.js) to its current fields; state names the *)
(* object this.state points to.  VectorState and Vector2 objects are never *)
(* shared between two holders (every push clones, every pop removes), so   *)
(* they are held by value inside their holder.                             *)
(***************************************************************************)
EXTENDS Integers, Sequences, FiniteSets, TLC

VARIABLES
    state,            \* which VectorVisualizerState object this.state references
    heap,             \* fields (vector, visibility) of every such object
    undoHistory,      \* this.undoHistory
    redoHistory,      \* this.redoHistory
    lastSavedState,   \* this.lastSavedState: <<>> is null, <<v>> a VectorState
    isDragging,       \* this.isDragging
    dragTarget,       \* this.dragTarget ("null" or a vector type)
    isDraggingCanvas, \* this.isDraggingCanvas
    numberDragState,  \* this.numberDragState
    meshes,           \* the display: this.*Mesh, this.needsRender, the renderer
    event,            \* observer: the handler or function that ran last
    call,             \* observer: arguments and result of what ran last
    track,            \* observer: the mutation / undo / redo sequence in progress
    steps             \* observer: number of handlers that have run

vars == <<state, heap, undoHistory, redoHistory, lastSavedState, isDragging,
          dragTarget, isDraggingCanvas, numberDragState, meshes, event, call,
          track, steps>>

progVars == <<state, heap, undoHistory, redoHistory, lastSavedState, isDragging,
              dragTarget, isDraggingCanvas, numberDragState, meshes>>

-----------------------------------------------------------------------------
(* Numbers *)

Epsilon == 2

One == 1000 * Epsilon

NaN == 999999999

maxHistorySize == 50

IsNaN(a) == a = NaN

FAdd(a, b) == IF IsNaN(a) \/ IsNaN(b) THEN NaN ELSE a + b

FSub(a, b) == IF IsNaN(a) \/ IsNaN(b) THEN NaN ELSE a - b

FAbs(a) == IF IsNaN(a) THEN NaN ELSE IF a < 0 THEN 0 - a ELSE a

FLess(a, b) == IF IsNaN(a) \/ IsNaN(b) THEN FALSE ELSE a < b

RECURSIVE SqrtSearch(_, _, _)
SqrtSearch(n, lo, hi) ==
    IF lo >= hi THEN lo
    ELSE LET mid == (lo + hi + 1) \div 2
         IN  IF mid * mid <= n THEN SqrtSearch(n, mid, hi)
                               ELSE SqrtSearch(n, lo, mid - 1)

\* Math.sqrt, rounded to the nearest representable value: n counts units
\* of 1 / One, and so does the result
Sqrt(n) ==
    IF IsNaN(n) THEN NaN
    ELSE LET m == n * One
             r == SqrtSearch(m, 0, 46340)
         IN  IF m - r * r > r THEN r + 1 ELSE r

RoundDiv(a, b) ==
    IF a >= 0 THEN (2 * a + b) \div (2 * b)
              ELSE 0 - ((2 * (0 - a) + b) \div (2 * b))

\* a * b, rounded to the nearest representable value
FMul(a, b) == IF IsNaN(a) \/ IsNaN(b) THEN NaN ELSE RoundDiv(a * b, One)

FNeg(a) == IF IsNaN(a) THEN NaN ELSE 0 - a

-----------------------------------------------------------------------------
(* Vector2 *)

Vector2(x, y) == [x |-> x, y |-> y]

Vector2Clone(v) == Vector2(v.x, v.y)

Vector2Equals(v, other) ==
    /\ FLess(FAbs(FSub(v.x, other.x)), Epsilon)
    /\ FLess(FAbs(FSub(v.y, other.y)), Epsilon)

\* scale(scalar) that leaves y as it is
ScaleX(v, scalar) == Vector2(FMul(v.x, scalar), v.y)

Scale(v, scalar) == Vector2(FMul(v.x, scalar), FMul(v.y, scalar))

Add(v, other) == Vector2(FAdd(v.x, other.x), FAdd(v.y, other.y))

Sub(v, other) == Vector2(FSub(v.x, other.x), FSub(v.y, other.y))

Dot(v, other) == FAdd(FMul(v.x, other.x), FMul(v.y, other.y))

\* wedge(other) with the two products added
WedgeSum(v, other) == FAdd(FMul(v.x, other.y), FMul(v.y, other.x))

Wedge(v, other) == FSub(FMul(v.x, other.y), FMul(v.y, other.x))

\* rotate() turning clockwise
RotateClockwise(v) == Vector2(v.y, FNeg(v.x))

Rotate(v) == Vector2(FNeg(v.y), v.x)

norm2(v) == Sqrt(Dot(v, v))

\* normalize() that returns a vector of norm 0 as it is
NormalizeGuarded(v) ==
    LET n == norm2(v)
    IN  IF IsNaN(n) THEN Vector2(NaN, NaN)
        ELSE IF n = 0 THEN v
        ELSE Vector2(RoundDiv(v.x * One, n), RoundDiv(v.y * One, n))

\* this.scale(1.0 / norm2(this)): 1.0 / 0 is Infinity and 0 * Infinity is NaN
Normalize(v) ==
    LET n == norm2(v)
    IN  IF IsNaN(n) \/ n = 0 THEN Vector2(NaN, NaN)
        ELSE Vector2(RoundDiv(v.x * One, n), RoundDiv(v.y * One, n))

GeometricProduct(dot, wedge) == [dot |-> dot, wedge |-> wedge]

\* Vector2.prod_vector(other) with the two parts exchanged
prod_vector_exchanged(v, other) == GeometricProduct(Wedge(v, other), Dot(v, other))

\* Vector2.prod_vector(other)
prod_vector(v, other) == GeometricProduct(Dot(v, other), Wedge(v, other))

\* GeometricProduct.prod_vector(vector) with the sign of the wedge term flipped
GeometricProduct_prod_vector_plus(gp, vector) ==
    Add(Scale(vector, gp.dot), Scale(Rotate(vector), gp.wedge))

\* GeometricProduct.prod_vector(vector): line 88
GeometricProduct_prod_vector(gp, vector) ==
    Sub(Scale(vector, gp.dot), Scale(Rotate(vector), gp.wedge))

-----------------------------------------------------------------------------
(* VectorState, VectorVisualizerState *)

VectorState(A, B, C) == [A |-> A, B |-> B, C |-> C]

DefaultVectorState ==
    VectorState(Vector2(2 * One, One), Vector2(0 - One, One), Vector2(0 - One, 0))

VectorStateClone(s) ==
    VectorState(Vector2Clone(s.A), Vector2Clone(s.B), Vector2Clone(s.C))

VectorStateEquals(s, other) ==
    /\ Vector2Equals(s.A, other.A)
    /\ Vector2Equals(s.B, other.B)
    /\ Vector2Equals(s.C, other.C)

VisibilityKeys == {"a", "b", "c", "brot", "dot", "wedge", "prodABC", "prodCAB"}

DefaultVisibility == [k \in VisibilityKeys |-> TRUE]

VectorVisualizerState(vector, visibility) ==
    [vector |-> vector, visibility |-> visibility]

DefaultState == VectorVisualizerState(DefaultVectorState, DefaultVisibility)

Visibility(shown) == [k \in VisibilityKeys |-> k \in shown]

DotVisibility == Visibility({"a", "b", "brot", "dot"})

WedgeVisibility == Visibility({"a", "b", "wedge"})

DOT_PARALLEL_BASIS_EXAMPLE ==
    VectorVisualizerState(
        VectorState(Vector2(One, 0), Vector2(One, 0), Vector2(0, 0)),
        DotVisibility)

DOT_ORTHOGONAL_BASIS_EXAMPLE ==
    VectorVisualizerState(
        VectorState(Vector2(One, 0), Vector2(0, One), Vector2(0, 0)),
        DotVisibility)

DOT_ORTHOGONAL_EXAMPLE ==
    VectorVisualizerState(
        VectorState(Vector2(2 * One, One), Vector2(0 - One, 2 * One), Vector2(0, 0)),
        DotVisibility)

DOT_CODIRECTIONAL_EXAMPLE ==
    VectorVisualizerState(
        VectorState(Vector2(2 * One, One),
                    Vector2(0 - 3 * One, 0 - (3 * One) \div 2), Vector2(0, 0)),
        DotVisibility)

DOT_SELF_EXAMPLE ==
    VectorVisualizerState(
        VectorState(Vector2(2 * One, 0), Vector2(2 * One, 0), Vector2(0, 0)),
        DotVisibility)

DOT_SIGN_SWITCH_EXAMPLE ==
    VectorVisualizerState(
        VectorState(Vector2(2 * One, 0 - One), Vector2(One, One), Vector2(0, 0)),
        DotVisibility)

WEDGE_PARALLEL_BASIS_EXAMPLE ==
    VectorVisualizerState(
        VectorState(Vector2(One, 0), Vector2(One, 0), Vector2(0, 0)),
        WedgeVisibility)

WEDGE_ORTHOGONAL_BASIS_EXAMPLE ==
    VectorVisualizerState(
        VectorState(Vector2(One, 0), Vector2(0, One), Vector2(0, 0)),
        WedgeVisibility)

WEDGE_NEGATIVE_ORTHOGONAL_BASIS_EXAMPLE ==
    VectorVisualizerState(
        VectorState(Vector2(0, One), Vector2(One, 0), Vector2(0, 0)),
        WedgeVisibility)

GEOMETRIC_PRODUCT_EXAMPLE ==
    VectorVisualizerState(
        VectorState(Normalize(Vector2(5 * One, One)),
                    Normalize(Vector2(2 * One, 0 - One)),
                    Vector2(One, One)),
        Visibility({"a", "b", "c", "prodABC", "prodCAB"}))

\* the examples wired to buttons in setupEventListeners
Catalog ==
    [ DOT_PARALLEL_BASIS_EXAMPLE |-> DOT_PARALLEL_BASIS_EXAMPLE,
      DOT_ORTHOGONAL_BASIS_EXAMPLE |-> DOT_ORTHOGONAL_BASIS_EXAMPLE,
      DOT_ORTHOGONAL_EXAMPLE |-> DOT_ORTHOGONAL_EXAMPLE,
      DOT_CODIRECTIONAL_EXAMPLE |-> DOT_CODIRECTIONAL_EXAMPLE,
      DOT_SELF_EXAMPLE |-> DOT_SELF_EXAMPLE,
      DOT_SIGN_SWITCH_EXAMPLE |-> DOT_SIGN_SWITCH_EXAMPLE,
      WEDGE_PARALLEL_BASIS_EXAMPLE |-> WEDGE_PARALLEL_BASIS_EXAMPLE,
      WEDGE_ORTHOGONAL_BASIS_EXAMPLE |-> WEDGE_ORTHOGONAL_BASIS_EXAMPLE,
      WEDGE_NEGATIVE_ORTHOGONAL_BASIS_EXAMPLE |-> WEDGE_NEGATIVE_ORTHOGONAL_BASIS_EXAMPLE,
      GEOMETRIC_PRODUCT_EXAMPLE |-> GEOMETRIC_PRODUCT_EXAMPLE ]

ExampleNames == DOMAIN Catalog

Objects == {"own"} \cup ExampleNames

VectorTypes == {"a", "b", "c"}

\* vectorType.toUpperCase()
ToUpperCase(t) == CASE t = "a" -> "A" [] t = "b" -> "B" [] t = "c" -> "C"

IdleNumberDragState ==
    [isDragging |-> FALSE, vector |-> "null", component |-> "null",
     startY |-> 0, startValue |-> 0]

\* the live VectorState, this.state.vector
Vector == heap[state].vector

\* the live visibility flags, this.state.visibility
VisibilityFlags == heap[state].visibility

-----------------------------------------------------------------------------
(* clone() at the level of object identity.  A memory holds, per class, the *)
(* objects allocated so far; a reference is an index into the sequence of   *)
(* its class, and `new` appends.                                           *)

KeyOrder == <<"a", "b", "c", "brot", "dot", "wedge", "prodABC", "prodCAB">>

\* JSON.stringify(visibility): the flags in the insertion order of their keys
JSONStringify(visibility) ==
    [i \in DOMAIN KeyOrder |-> <<KeyOrder[i], visibility[KeyOrder[i]]>>]

EmptyMemory ==
    [vector2 |-> <<>>, vectorState |-> <<>>, visibility |-> <<>>,
     visualizerState |-> <<>>]

New(mem, class, object) ==
    [mem |-> [mem EXCEPT ![class] = Append(@, object)],
     ref |-> Len(mem[class]) + 1]

\* Vector2.clone() of the object at r
Vector2CloneAt(mem, r) ==
    New(mem, "vector2", Vector2(mem.vector2[r].x, mem.vector2[r].y))

\* VectorState.clone() that passes on its Vector2 objects
VectorStateCloneAtShallow(mem, r) ==
    New(mem, "vectorState",
        [A |-> mem.vectorState[r].A, B |-> mem.vectorState[r].B,
         C |-> mem.vectorState[r].C])

\* VectorState.clone() of the object at r
VectorStateCloneAt(mem, r) ==
    LET A == Vector2CloneAt(mem, mem.vectorState[r].A)
        B == Vector2CloneAt(A.mem, mem.vectorState[r].B)
        C == Vector2CloneAt(B.mem, mem.vectorState[r].C)
    IN  New(C.mem, "vectorState", [A |-> A.ref, B |-> B.ref, C |-> C.ref])

\* VectorVisualizerState.clone() of the object at r
VectorVisualizerStateCloneAt(mem, r) ==
    LET vector == VectorStateCloneAt(mem, mem.visualizerState[r].vector)
        visibility == New(vector.mem, "visibility",
                          mem.visibility[mem.visualizerState[r].visibility])
    IN  New(visibility.mem, "visualizerState",
            [vector |-> vector.ref, visibility |-> visibility.ref])

\* the fields of the VectorState object at r
VectorStateAt(mem, r) ==
    VectorState(mem.vector2[mem.vectorState[r].A],
                mem.vector2[mem.vectorState[r].B],
                mem.vector2[mem.vectorState[r].C])

\* the fields of the VectorVisualizerState object at r
VectorVisualizerStateAt(mem, r) ==
    VectorVisualizerState(VectorStateAt(mem, mem.visualizerState[r].vector),
                          mem.visibility[mem.visualizerState[r].visibility])

\* new VectorState(new Vector2(..), new Vector2(..), new Vector2(..))
NewVectorState(mem, s) ==
    LET A == New(mem, "vector2", s.A)
        B == New(A.mem, "vector2", s.B)
        C == New(B.mem, "vector2", s.C)
    IN  New(C.mem, "vectorState", [A |-> A.ref, B |-> B.ref, C |-> C.ref])

\* new VectorVisualizerState(new VectorState(..), {..})
NewVectorVisualizerState(mem, s) ==
    LET vector == NewVectorState(mem, s.vector)
        visibility == New(vector.mem, "visibility", s.visibility)
    IN  New(visibility.mem, "visualizerState",
            [vector |-> vector.ref, visibility |-> visibility.ref])

\* VectorVisualizerState.equals(other)
VectorVisualizerStateEquals(s, other) ==
    /\ VectorStateEquals(s.vector, other.vector)
    /\ JSONStringify(s.visibility) = JSONStringify(other.visibility)

\* vectorState[key][component] = value, on the VectorState object at r
WriteComponent(mem, r, key, component, value) ==
    [mem EXCEPT !.vector2[mem.vectorState[r][key]][component] = value]

\* visibility[key] = !visibility[key], on the visibility object at r
WriteFlag(mem, r, key) == [mem EXCEPT !.visibility[r][key] = ~@]

-----------------------------------------------------------------------------
(* validateStateJSON.  A JSON-like value is its typeof class, its           *)
(* truthiness and, for an object, its own properties.                       *)

JsonValue(type, truthy, props) ==
    [type |-> type, truthy |-> truthy, props |-> props]

JsonNull == JsonValue("null", FALSE, <<>>)

JsonUndefined == JsonValue("undefined", FALSE, <<>>)

JsonNumber == JsonValue("number", TRUE, <<>>)

JsonZero == JsonValue("number", FALSE, <<>>)

JsonString == JsonValue("string", TRUE, <<>>)

JsonBoolean(b) == JsonValue("boolean", b, <<>>)

JsonObject(props) == JsonValue("object", TRUE, props)

\* value[key] for a value other than null and undefined
Get(value, key) ==
    IF value.type = "object" /\ key \in DOMAIN value.props
    THEN value.props[key]
    ELSE JsonUndefined

\* typeof value
TypeOf(value) == IF value.type = "null" THEN "object" ELSE value.type

requiredKeys == {"a", "b", "c", "brot", "dot", "wedge", "prod"}

\* validateStateJSON(json) that only asks for the visibility keys to be there
validateStateJSONAnyFlag(json) ==
    IF json.type \in {"null", "undefined"} THEN FALSE
    ELSE IF ~Get(json, "vector").truthy \/ ~Get(json, "visibility").truthy
    THEN FALSE
    ELSE LET vector == Get(json, "vector")
             visibility == Get(json, "visibility")
         IN  IF \E key \in {"A", "B", "C"} : ~Get(vector, key).truthy
             THEN FALSE
             ELSE IF \E key \in {"A", "B", "C"}, component \in {"x", "y"} :
                         TypeOf(Get(Get(vector, key), component)) # "number"
             THEN FALSE
             ELSE IF \E key \in requiredKeys :
                         TypeOf(Get(visibility, key)) = "undefined"
             THEN FALSE
             ELSE TRUE

\* validateStateJSON(json): reading json.vector throws when json is null or
\* undefined and the catch block returns false; no later read can throw,
\* because it reads a property of a value just found truthy
validateStateJSON(json) ==
    IF json.type \in {"null", "undefined"} THEN FALSE
    ELSE IF ~Get(json, "vector").truthy \/ ~Get(json, "visibility").truthy
    THEN FALSE
    ELSE LET vector == Get(json, "vector")
             visibility == Get(json, "visibility")
         IN  IF \E key \in {"A", "B", "C"} : ~Get(vector, key).truthy
             THEN FALSE
             ELSE IF \E key \in {"A", "B", "C"}, component \in {"x", "y"} :
                         TypeOf(Get(Get(vector, key), component)) # "number"
             THEN FALSE
             ELSE IF \E key \in requiredKeys :
                         TypeOf(Get(visibility, key)) # "boolean"
             THEN FALSE
             ELSE TRUE

-----------------------------------------------------------------------------
(* Display.  meshes holds, per mesh, the geometry last written into it (the *)
(* end point of an arrow, the four vertices of a parallelogram), in visible *)
(* the .visible of every mesh, in needsRender the dirty flag and in renders *)
(* the number of calls of renderer.render so far.  The geometry of the      *)
(* dashed helper arrows and the text panels are rewritten by the same calls *)
(* from the same vectors and are not represented.                           *)

\* updateVector(vectorMesh, vector)
updateVector(m, vectorMesh, vector) ==
    [m EXCEPT ![vectorMesh] = vector, !.needsRender = TRUE]

\* updateParallelogram(parallelogramMesh, vectorA, vectorB)
updateParallelogram(m, parallelogramMesh, vectorA, vectorB) ==
    [m EXCEPT ![parallelogramMesh] =
                  [origin |-> Vector2(0, 0),
                   vertexA |-> Vector2(vectorA.x, vectorA.y),
                   vertexSum |-> Vector2(FAdd(vectorA.x, vectorB.x),
                                         FAdd(vectorA.y, vectorB.y)),
                   vertexB |-> Vector2(vectorB.x, vectorB.y)],
              !.needsRender = TRUE]

\* updateMeshVisibility() that shows a dashed helper with its operand alone
updateMeshVisibilityByOperand(m, visibility) ==
    [m EXCEPT !.visible =
                  [vectorAMesh |-> visibility.a,
                   vectorBMesh |-> visibility.b,
                   vectorCMesh |-> visibility.c,
                   vectorBRotMesh |-> visibility.brot,
                   dotMesh |-> visibility.dot,
                   wedgeMesh |-> visibility.wedge,
                   vectorADashedMeshWedge |-> visibility.a,
                   vectorBDashedMesh |-> visibility.b,
                   vectorADashedMeshDot |-> visibility.a,
                   vectorBRotDashedMesh |-> visibility.brot,
                   vectorProdABCMesh |-> visibility.prodABC,
                   vectorProdCABMesh |-> visibility.prodCAB],
              !.needsRender = TRUE]

\* updateMeshVisibility(), run while this.state.visibility is visibility
updateMeshVisibility(m, visibility) ==
    [m EXCEPT !.visible =
                  [vectorAMesh |-> visibility.a,
                   vectorBMesh |-> visibility.b,
                   vectorCMesh |-> visibility.c,
                   vectorBRotMesh |-> visibility.brot,
                   dotMesh |-> visibility.dot,
                   wedgeMesh |-> visibility.wedge,
                   vectorADashedMeshWedge |-> visibility.wedge /\ visibility.a,
                   vectorBDashedMesh |-> visibility.wedge /\ visibility.b,
                   vectorADashedMeshDot |-> visibility.dot /\ visibility.a,
                   vectorBRotDashedMesh |-> visibility.dot /\ visibility.brot,
                   vectorProdABCMesh |-> visibility.prodABC,
                   vectorProdCABMesh |-> visibility.prodCAB],
              !.needsRender = TRUE]

\* updateVectors(), run while this.state.vector is v
updateVectors(m, v) ==
    LET m1 == updateParallelogram(m, "wedgeMesh", v.A, v.B)
        m2 == updateParallelogram(m1, "dotMesh", v.A, Rotate(v.B))
        m3 == updateVector(m2, "vectorProdABCMesh",
                  GeometricProduct_prod_vector(prod_vector(v.A, v.B), v.C))
    IN  updateVector(m3, "vectorProdCABMesh",
            GeometricProduct_prod_vector(prod_vector(v.C, v.A), v.B))

MeshNames ==
    {"vectorAMesh", "vectorBMesh", "vectorCMesh", "vectorBRotMesh", "dotMesh",
     "wedgeMesh", "vectorADashedMeshWedge", "vectorBDashedMesh",
     "vectorADashedMeshDot", "vectorBRotDashedMesh", "vectorProdABCMesh",
     "vectorProdCABMesh"}

\* createVectors() and the updateVectors() of init(), while this.state.vector
\* is v: a new mesh is visible, the constructor has set needsRender, nothing
\* has been rendered
createVectors(v) ==
    updateVectors(
        [vectorAMesh |-> v.A, vectorBMesh |-> v.B, vectorCMesh |-> v.C,
         vectorBRotMesh |-> Rotate(v.B),
         dotMesh |-> <<>>, wedgeMesh |-> <<>>,
         vectorProdABCMesh |-> <<>>, vectorProdCABMesh |-> <<>>,
         visible |-> [mesh \in MeshNames |-> TRUE],
         needsRender |-> TRUE,
         renders |-> 0], v)

\* the display after createScene(), updateVectors() and the animate() that
\* init() ends with, which renders the first frame
initMeshes(s) ==
    [updateMeshVisibility(createVectors(s.vector), s.visibility)
        EXCEPT !.needsRender = FALSE, !.renders = 1]

\* the same calls without the one that rewrites the rotated B
updateVectorMeshesStaleBRot(m, vectorKey, v) ==
    CASE vectorKey = "A" -> updateVector(m, "vectorAMesh", v.A)
      [] vectorKey = "B" -> updateVector(m, "vectorBMesh", v.B)
      [] vectorKey = "C" -> updateVector(m, "vectorCMesh", v.C)

\* the updateVector calls a change of the vector named vectorKey is followed by
updateVectorMeshes(m, vectorKey, v) ==
    CASE vectorKey = "A" -> updateVector(m, "vectorAMesh", v.A)
      [] vectorKey = "B" -> updateVector(updateVector(m, "vectorBMesh", v.B),
                                         "vectorBRotMesh", Rotate(v.B))
      [] vectorKey = "C" -> updateVector(m, "vectorCMesh", v.C)

-----------------------------------------------------------------------------
(* History manager *)

Last(s) == s[Len(s)]

Front(s) == SubSeq(s, 1, Len(s) - 1)

Tail1(s) == SubSeq(s, 2, Len(s))

\* saveState() that never evicts
saveStateUncapped ==
    IF lastSavedState # <<>> /\ VectorStateEquals(lastSavedState[1], Vector)
    THEN UNCHANGED <<undoHistory, redoHistory, lastSavedState>>
    ELSE LET currentState == VectorStateClone(Vector)
         IN  /\ undoHistory' = Append(undoHistory, currentState)
             /\ redoHistory' = <<>>
             /\ lastSavedState' = <<currentState>>

\* saveState(): lines 1388-1401
saveState ==
    IF lastSavedState # <<>> /\ VectorStateEquals(lastSavedState[1], Vector)
    THEN UNCHANGED <<undoHistory, redoHistory, lastSavedState>>
    ELSE LET currentState == VectorStateClone(Vector)
             pushed == Append(undoHistory, currentState)
         IN  /\ undoHistory' = IF Len(pushed) > maxHistorySize
                               THEN Tail1(pushed) ELSE pushed
             /\ redoHistory' = <<>>
             /\ lastSavedState' = <<currentState>>

\* the meshes after the body of setVectorState(vectorState)
setVectorStateMeshes(vectorState) ==
    updateVectors(
        updateVector(
            updateVector(
                updateVector(
                    updateVector(meshes, "vectorAMesh", vectorState.A),
                    "vectorBMesh", vectorState.B),
                "vectorCMesh", vectorState.C),
            "vectorBRotMesh", Rotate(vectorState.B)),
        vectorState)

\* the meshes after the display updates of setState(state)
setStateMeshes(s) ==
    updateMeshVisibility(setVectorStateMeshes(s.vector), s.visibility)

\* setVectorState(vectorState): this.state.vector = vectorState
setVectorState(vectorState) ==
    /\ heap' = [heap EXCEPT ![state].vector = vectorState]
    /\ meshes' = setVectorStateMeshes(vectorState)

\* undo() that restores the popped snapshot before it records the redo entry
undoRestoreFirst ==
    IF Len(undoHistory) <= 0
    THEN UNCHANGED progVars
    ELSE /\ redoHistory' = Append(redoHistory, VectorStateClone(Last(undoHistory)))
         /\ undoHistory' = Front(undoHistory)
         /\ setVectorState(Last(undoHistory))
         /\ lastSavedState' = IF Len(undoHistory') > 0
                              THEN <<Last(undoHistory')>> ELSE <<>>
         /\ UNCHANGED <<state, isDragging, dragTarget, isDraggingCanvas,
                        numberDragState>>

\* undo() that leaves the last-saved cache as it is
undoStaleCache ==
    IF Len(undoHistory) <= 0
    THEN UNCHANGED progVars
    ELSE /\ redoHistory' = Append(redoHistory, VectorStateClone(Vector))
         /\ undoHistory' = Front(undoHistory)
         /\ setVectorState(Last(undoHistory))
         /\ UNCHANGED <<state, lastSavedState, isDragging, dragTarget,
                        isDraggingCanvas, numberDragState>>

\* undo(): lines 1403-1412
undo ==
    IF Len(undoHistory) <= 0
    THEN UNCHANGED progVars
    ELSE /\ redoHistory' = Append(redoHistory, VectorStateClone(Vector))
         /\ undoHistory' = Front(undoHistory)
         /\ setVectorState(Last(undoHistory))
         /\ lastSavedState' = IF Len(undoHistory') > 0
                              THEN <<Last(undoHistory')>> ELSE <<>>
         /\ UNCHANGED <<state, isDragging, dragTarget, isDraggingCanvas,
                        numberDragState>>

\* redo() that tests the redo stack after it pushed the current vectors
redoPushFirst ==
    /\ lastSavedState' = <<VectorStateClone(Vector)>>
    /\ undoHistory' = Append(undoHistory, lastSavedState'[1])
    /\ IF Len(redoHistory) <= 0
       THEN UNCHANGED <<redoHistory, heap, meshes>>
       ELSE /\ redoHistory' = Front(redoHistory)
            /\ setVectorState(Last(redoHistory))
    /\ UNCHANGED <<state, isDragging, dragTarget, isDraggingCanvas,
                   numberDragState>>

\* redo() that caches the current vectors without pushing them
redoNoPush ==
    IF Len(redoHistory) <= 0
    THEN UNCHANGED progVars
    ELSE /\ lastSavedState' = <<VectorStateClone(Vector)>>
         /\ redoHistory' = Front(redoHistory)
         /\ setVectorState(Last(redoHistory))
         /\ UNCHANGED <<state, undoHistory, isDragging, dragTarget,
                        isDraggingCanvas, numberDragState>>

\* redo(): lines 1414-1423
redo ==
    IF Len(redoHistory) <= 0
    THEN UNCHANGED progVars
    ELSE /\ lastSavedState' = <<VectorStateClone(Vector)>>
         /\ undoHistory' = Append(undoHistory, lastSavedState'[1])
         /\ redoHistory' = Front(redoHistory)
         /\ setVectorState(Last(redoHistory))
         /\ UNCHANGED <<state, isDragging, dragTarget, isDraggingCanvas,
                        numberDragState>>

\* loadExample(state) that forgets saveState()
loadExampleNoSave(example) ==
    /\ state' = example
    /\ meshes' = setStateMeshes(heap[example])
    /\ UNCHANGED <<heap, undoHistory, redoHistory, lastSavedState, isDragging,
                   dragTarget, isDraggingCanvas, numberDragState>>

\* loadExample(state): saveState(), then setState(state), which makes
\* this.state the example object itself and re-installs its own vector
loadExample(example) ==
    /\ saveState
    /\ state' = example
    /\ meshes' = setStateMeshes(heap[example])
    /\ UNCHANGED <<heap, isDragging, dragTarget, isDraggingCanvas,
                   numberDragState>>

\* resetVectors(): setState(new VectorVisualizerState()), no saveState();
\* updateCameraPosition() sets needsRender once more
resetVectors ==
    /\ state' = "own"
    /\ heap' = [heap EXCEPT !["own"] = DefaultState]
    /\ meshes' = setStateMeshes(DefaultState)
    /\ UNCHANGED <<undoHistory, redoHistory, lastSavedState, isDragging,
                   dragTarget, isDraggingCanvas, numberDragState>>

\* toggleVisibility(target, vectorType)
toggleVisibility(vectorType) ==
    /\ heap' = [heap EXCEPT ![state].visibility[vectorType] = ~@]
    /\ meshes' = updateMeshVisibility(
                     meshes, [VisibilityFlags EXCEPT ![vectorType] = ~@])
    /\ UNCHANGED <<state, undoHistory, redoHistory, lastSavedState, isDragging,
                   dragTarget, isDraggingCanvas, numberDragState>>

\* normalizeVector(vectorType)
normalizeVector(vectorType) ==
    /\ saveState
    /\ LET vectorKey == ToUpperCase(vectorType)
           v == [Vector EXCEPT ![vectorKey] = Normalize(@)]
       IN  /\ heap' = [heap EXCEPT ![state].vector = v]
           /\ meshes' = updateVectors(updateVectorMeshes(meshes, vectorKey, v), v)
    /\ UNCHANGED <<state, isDragging, dragTarget, isDraggingCanvas,
                   numberDragState>>

-----------------------------------------------------------------------------
(* Pointer handlers on the canvas *)

\* onMouseDown(event): hit is the vectorType of the first draggable object
\* under the pointer, or "none"
onMouseDown(button, hit) ==
    IF button = 0
    THEN IF hit \in VectorTypes
         THEN /\ isDragging' = TRUE
              /\ dragTarget' = hit
              /\ saveState
              /\ UNCHANGED <<state, heap, isDraggingCanvas, numberDragState,
                             meshes>>
         ELSE /\ isDraggingCanvas' = TRUE
              /\ UNCHANGED <<state, heap, undoHistory, redoHistory,
                             lastSavedState, isDragging, dragTarget,
                             numberDragState, meshes>>
    ELSE UNCHANGED progVars

\* moveVector(): world is the intersection of the pointer ray with the
\* plane z = 0 (intersects is FALSE when the ray misses the plane)
moveVector(intersects, world) ==
    IF intersects /\ dragTarget \in VectorTypes
    THEN LET vectorKey == ToUpperCase(dragTarget)
             v == [Vector EXCEPT ![vectorKey] = Vector2(world.x, world.y)]
         IN  /\ heap' = [heap EXCEPT ![state].vector = v]
             /\ meshes' = updateVectors(updateVectorMeshes(meshes, vectorKey, v), v)
    ELSE UNCHANGED <<heap, meshes>>

\* rotateCamera(event): updateCameraPosition() sets needsRender
rotateCamera == meshes' = [meshes EXCEPT !.needsRender = TRUE]

\* onMouseMove(event) that snapshots on every move of a drag
onMouseMoveSaving(intersects, world) ==
    /\ IF isDragging /\ dragTarget # "null"
       THEN moveVector(intersects, world) /\ saveState
       ELSE IF isDraggingCanvas
       THEN /\ rotateCamera
            /\ UNCHANGED <<heap, undoHistory, redoHistory, lastSavedState>>
       ELSE UNCHANGED <<heap, meshes, undoHistory, redoHistory, lastSavedState>>
    /\ UNCHANGED <<state, isDragging, dragTarget, isDraggingCanvas,
                   numberDragState>>

\* onMouseMove(event)
onMouseMove(intersects, world) ==
    /\ IF isDragging /\ dragTarget # "null"
       THEN moveVector(intersects, world)
       ELSE IF isDraggingCanvas
       THEN rotateCamera /\ UNCHANGED heap
       ELSE UNCHANGED <<heap, meshes>>
    /\ UNCHANGED <<state, undoHistory, redoHistory, lastSavedState, isDragging,
                   dragTarget, isDraggingCanvas, numberDragState>>

\* onMouseUp(event) that ends the rotation of the camera only
onMouseUpKeepsDrag(button) ==
    IF button = 0
    THEN /\ isDraggingCanvas' = FALSE
         /\ UNCHANGED <<state, heap, undoHistory, redoHistory, lastSavedState,
                        isDragging, dragTarget, numberDragState, meshes>>
    ELSE UNCHANGED progVars

\* onMouseUp(event)
onMouseUp(button) ==
    IF button = 0
    THEN /\ isDragging' = FALSE
         /\ dragTarget' = "null"
         /\ isDraggingCanvas' = FALSE
         /\ UNCHANGED <<state, heap, undoHistory, redoHistory, lastSavedState,
                        numberDragState, meshes>>
    ELSE UNCHANGED progVars

-----------------------------------------------------------------------------
(* Draggable numbers *)

getVectorComponentValue(vectorType, component) ==
    LET vector == Vector[ToUpperCase(vectorType)]
    IN  IF component = "x" THEN vector.x ELSE vector.y

\* updateVectorComponent: writes the component of the live Vector2 in place
updateVectorComponent(vectorType, component, value) ==
    LET vectorKey == ToUpperCase(vectorType)
        v == IF component = "x" THEN [Vector EXCEPT ![vectorKey].x = value]
             ELSE IF component = "y" THEN [Vector EXCEPT ![vectorKey].y = value]
             ELSE Vector
    IN  /\ heap' = [heap EXCEPT ![state].vector = v]
        /\ meshes' = updateVectors(updateVectorMeshes(meshes, vectorKey, v), v)

onNumberMouseDown(vectorType, component, clientY) ==
    /\ saveState
    /\ numberDragState' =
           [isDragging |-> TRUE, vector |-> vectorType, component |-> component,
            startY |-> clientY,
            startValue |-> getVectorComponentValue(vectorType, component)]
    /\ UNCHANGED <<state, heap, isDragging, dragTarget, isDraggingCanvas,
                   meshes>>

\* deltaY * sensitivity, with sensitivity = 0.01
NumberDragValue(clientY) ==
    LET deltaY == numberDragState.startY - clientY
    IN  FAdd(numberDragState.startValue, deltaY * (One \div 100))

onNumberMouseMove(clientY) ==
    IF ~numberDragState.isDragging
    THEN UNCHANGED progVars
    ELSE /\ updateVectorComponent(numberDragState.vector,
                                  numberDragState.component,
                                  NumberDragValue(clientY))
         /\ UNCHANGED <<state, undoHistory, redoHistory, lastSavedState,
                        isDragging, dragTarget, isDraggingCanvas,
                        numberDragState>>

onNumberMouseUp ==
    IF ~numberDragState.isDragging
    THEN UNCHANGED progVars
    ELSE /\ numberDragState' = IdleNumberDragState
         /\ UNCHANGED <<state, heap, undoHistory, redoHistory, lastSavedState,
                        isDragging, dragTarget, isDraggingCanvas, meshes>>

-----------------------------------------------------------------------------
(* Observer.  event names the handler that ran last.  track follows one    *)
(* history-relevant operation M started with no gesture in progress (a     *)
(* canvas drag, a numeric drag, normalizeVector, loadExample or            *)
(* resetVectors), an undo() right after it and a redo() right after that:  *)
(* s0 is the live state before M, s1 the live state before the undo().     *)
(* Handlers that change nothing do not interrupt the sequence.  call holds  *)
(* the arguments the handler ran with, where a property needs them.        *)

MaxSteps == 5

Live == heap[state]

GestureFree == ~isDragging /\ ~numberDragState.isDragging

IdleTrack == [phase |-> "idle", kind |-> "none", s0 |-> <<>>, s1 |-> <<>>]

Started(phase, kind) ==
    [phase |-> phase, kind |-> kind, s0 |-> <<Live>>, s1 |-> <<>>]

ObserveCall(e, args) ==
    IF e \notin {"undo", "redo"} /\ progVars' = progVars
    THEN UNCHANGED <<event, call, track, steps>>
    ELSE
    /\ steps < MaxSteps
    /\ steps' = steps + 1
    /\ event' = e
    /\ call' = args
    /\ track' =
         IF e \in {"normalizeVector", "loadExample", "resetVectors"} /\ GestureFree
         THEN Started("done", e)
         ELSE IF e = "onMouseDown" /\ GestureFree /\ isDragging'
         THEN Started("gesture", "drag")
         ELSE IF e = "onNumberMouseDown" /\ GestureFree
         THEN Started("gesture", "number")
         ELSE IF track.phase = "gesture" /\ track.kind = "drag" /\ e = "onMouseMove"
         THEN track
         ELSE IF track.phase = "gesture" /\ track.kind = "drag" /\ e = "onMouseUp"
                 /\ ~isDragging'
         THEN [track EXCEPT !.phase = "done"]
         ELSE IF track.phase = "gesture" /\ track.kind = "number"
                 /\ e = "onNumberMouseMove"
         THEN track
         ELSE IF track.phase = "gesture" /\ track.kind = "number"
                 /\ e = "onNumberMouseUp"
         THEN [track EXCEPT !.phase = "done"]
         ELSE IF track.phase = "done" /\ e = "undo"
         THEN [track EXCEPT !.phase = "undone", !.s1 = <<Live>>]
         ELSE IF track.phase = "undone" /\ e = "redo"
         THEN [track EXCEPT !.phase = "redone"]
         ELSE IdleTrack

Observe(e) == ObserveCall(e, <<>>)

-----------------------------------------------------------------------------
(* The program under every interleaving of its events, inputs from small sets *)

Buttons == {0, 2}

Hits == {"a", "none"}

WorldPoints == {Vector2(0, 0), Vector2(3 * One, 4 * One), Vector2(2 * One + 1, One)}

NumberTargets == {<<"b", "y">>}

ClientYs == {0, 100}

ExampleInputs == {"DOT_ORTHOGONAL_BASIS_EXAMPLE"}

NormalizeInputs == {"a", "c"}

ToggleInputs == {"c"}

\* the program after its constructor and init()
Constructed ==
    /\ state = "own"
    /\ heap = [o \in Objects |->
                 IF o = "own" THEN DefaultState ELSE Catalog[o]]
    /\ undoHistory = <<>>
    /\ redoHistory = <<>>
    /\ lastSavedState = <<>>
    /\ isDragging = FALSE
    /\ dragTarget = "null"
    /\ isDraggingCanvas = FALSE
    /\ numberDragState = IdleNumberDragState
    /\ meshes = initMeshes(DefaultState)

Init ==
    /\ Constructed
    /\ event = "init"
    /\ call = <<>>
    /\ track = IdleTrack
    /\ steps = 0

MouseDown ==
    \E button \in Buttons, hit \in Hits :
        /\ onMouseDown(button, hit)
        /\ Observe("onMouseDown")

MouseMove ==
    \E intersects \in BOOLEAN, world \in WorldPoints :
        /\ onMouseMove(intersects, world)
        /\ Observe("onMouseMove")

MouseUp ==
    \E button \in Buttons :
        /\ onMouseUp(button)
        /\ Observe("onMouseUp")

NumberMouseDown ==
    \E target \in NumberTargets, clientY \in ClientYs :
        /\ onNumberMouseDown(target[1], target[2], clientY)
        /\ Observe("onNumberMouseDown")

NumberMouseMove ==
    \E clientY \in ClientYs :
        /\ onNumberMouseMove(clientY)
        /\ Observe("onNumberMouseMove")

NumberMouseUp ==
    /\ onNumberMouseUp
    /\ Observe("onNumberMouseUp")

NormalizeVector ==
    \E vectorType \in NormalizeInputs :
        /\ normalizeVector(vectorType)
        /\ ObserveCall("normalizeVector", <<vectorType>>)

\* the vectors, the stacks and the cache that undo() and redo() work on
HistorySnapshot ==
    [vector |-> Vector, undoHistory |-> undoHistory,
     redoHistory |-> redoHistory, lastSavedState |-> lastSavedState]

Undo ==
    /\ undo
    /\ ObserveCall("undo", <<HistorySnapshot>>)

Redo ==
    /\ redo
    /\ ObserveCall("redo", <<HistorySnapshot>>)

LoadExample ==
    \E example \in ExampleInputs :
        /\ loadExample(example)
        /\ Observe("loadExample")

ResetVectors ==
    /\ resetVectors
    /\ Observe("resetVectors")

ToggleVisibility ==
    \E vectorType \in ToggleInputs :
        /\ toggleVisibility(vectorType)
        /\ Observe("toggleVisibility")

Next ==
    \/ MouseDown
    \/ MouseMove
    \/ MouseUp
    \/ NumberMouseDown
    \/ NumberMouseMove
    \/ NumberMouseUp
    \/ NormalizeVector
    \/ Undo
    \/ Redo
    \/ LoadExample
    \/ ResetVectors
    \/ ToggleVisibility

Spec == Init /\ [][Next]_vars

-----------------------------------------------------------------------------
(* A fresh history filled by successive drags of A, each one unit further  *)
(* along x than the last, with undo() and redo() between gestures.  A new  *)
(* drag starts only with an empty redo stack, so the snapshots pushed are  *)
(* those of one unbroken series of mutations.                              *)

NumMutations == 60

\* mutations of the series that the live vectors reflect
MutationsDone == (Vector.A.x - DefaultVectorState.A.x) \div One

ObserveCap(e) ==
    /\ event' = e
    /\ UNCHANGED <<call, track, steps>>

CapMouseDown ==
    /\ ~isDragging
    /\ redoHistory = <<>>
    /\ MutationsDone < NumMutations
    /\ onMouseDown(0, "a")
    /\ ObserveCap("onMouseDown")

CapMouseMove ==
    /\ isDragging
    /\ Vector = Last(undoHistory)
    /\ onMouseMove(TRUE, Vector2(Vector.A.x + One, Vector.A.y))
    /\ ObserveCap("onMouseMove")

CapMouseUp ==
    /\ isDragging
    /\ Vector # Last(undoHistory)
    /\ onMouseUp(0)
    /\ ObserveCap("onMouseUp")

CapUndo ==
    /\ ~isDragging
    /\ undoHistory # <<>>
    /\ undo
    /\ ObserveCap("undo")

CapRedo ==
    /\ ~isDragging
    /\ redoHistory # <<>>
    /\ redo
    /\ ObserveCap("redo")

NextCap ==
    \/ CapMouseDown
    \/ CapMouseMove
    \/ CapMouseUp
    \/ CapUndo
    \/ CapRedo

SpecCap == Init /\ [][NextCap]_vars

-----------------------------------------------------------------------------
(* The functions of the vector algebra and validateStateJSON, evaluated on  *)
(* arguments from bounded sets while the program rests in its initial       *)
(* state.  call starts as one of the calls to evaluate; evaluating it puts  *)
(* the name of the function into event and arguments and results into call. *)

MaxCoordinate == 2

MaxScalar == 3

\* the vectors with integer coordinates of absolute value up to MaxCoordinate
EvalVectors ==
    {Vector2(x * One, y * One) : x, y \in (0 - MaxCoordinate)..MaxCoordinate}

EvalScalars == {k * One : k \in (0 - MaxScalar)..MaxScalar}

JsonPoint == JsonObject([x |-> JsonNumber, y |-> JsonZero])

JsonVector == JsonObject([A |-> JsonPoint, B |-> JsonPoint, C |-> JsonPoint])

JsonVisibility ==
    JsonObject([a |-> JsonBoolean(TRUE), b |-> JsonBoolean(TRUE),
                c |-> JsonBoolean(FALSE), brot |-> JsonBoolean(TRUE),
                dot |-> JsonBoolean(TRUE), wedge |-> JsonBoolean(FALSE),
                prod |-> JsonBoolean(FALSE)])

JsonState == JsonObject([vector |-> JsonVector, visibility |-> JsonVisibility])

Without(object, key) ==
    JsonObject([k \in DOMAIN object.props \ {key} |-> object.props[k]])

JsonInputs ==
    << JsonState,
       JsonNull,
       JsonUndefined,
       JsonNumber,
       Without(JsonState, "vector"),
       Without(JsonState, "visibility"),
       [JsonState EXCEPT !.props.vector = JsonNull],
       [JsonState EXCEPT !.props.visibility = JsonZero],
       [JsonState EXCEPT !.props.vector = Without(JsonVector, "A")],
       [JsonState EXCEPT !.props.vector = Without(JsonVector, "B")],
       [JsonState EXCEPT !.props.vector.props.C = JsonNull],
       [JsonState EXCEPT !.props.vector.props.A = JsonNumber],
       [JsonState EXCEPT !.props.vector.props.A.props.x = JsonString],
       [JsonState EXCEPT !.props.vector.props.B.props.y = JsonNull],
       [JsonState EXCEPT !.props.vector.props.C = Without(JsonPoint, "y")],
       [JsonState EXCEPT !.props.visibility.props.dot = JsonNumber],
       [JsonState EXCEPT !.props.visibility.props.a = JsonString],
       [JsonState EXCEPT !.props.visibility.props.brot = JsonNull],
       [JsonState EXCEPT !.props.visibility = Without(JsonVisibility, "prod")],
       [JsonState EXCEPT !.props.visibility = Without(JsonVisibility, "wedge")] >>

\* a number of the program as validateStateJSON sees it: 0 and NaN are falsy
JsonOfNumber(n) == JsonValue("number", n # 0 /\ ~IsNaN(n), <<>>)

JsonOfVector2(v) == JsonObject([x |-> JsonOfNumber(v.x), y |-> JsonOfNumber(v.y)])

\* a VectorVisualizerState object of the program as validateStateJSON sees
\* it: the properties are the fields the constructors set
JsonOfState(s) ==
    JsonObject(
        [vector |-> JsonObject([A |-> JsonOfVector2(s.vector.A),
                                B |-> JsonOfVector2(s.vector.B),
                                C |-> JsonOfVector2(s.vector.C)]),
         visibility |-> JsonObject([k \in VisibilityKeys |->
                                       JsonBoolean(s.visibility[k])])])

\* the calls to evaluate
EvalCalls ==
    {[fn |-> "GeometricProduct.prod_vector",
      dot |-> dot, wedge |-> wedge, vector |-> vector] :
         dot \in EvalScalars, wedge \in EvalScalars, vector \in EvalVectors}
    \cup {[fn |-> "prod_vector.prod_vector", A |-> A, B |-> B, C |-> C] :
              A \in EvalVectors, B \in EvalVectors, C \in EvalVectors}
    \cup {[fn |-> "dot, wedge", a |-> a, b |-> b] :
              a \in EvalVectors, b \in EvalVectors}
    \cup {[fn |-> "validateStateJSON", input |-> i] : i \in DOMAIN JsonInputs}
    \cup {[fn |-> "validateStateJSON(state)", object |-> o] : o \in Objects}

InitEval ==
    /\ Constructed
    /\ event = "init"
    /\ call \in EvalCalls
    /\ track = IdleTrack
    /\ steps = 0

GeometricProductProdVector ==
    /\ event = "init"
    /\ call.fn = "GeometricProduct.prod_vector"
    /\ event' = call.fn
    /\ call' = [dot |-> call.dot, wedge |-> call.wedge, vector |-> call.vector,
                result |-> GeometricProduct_prod_vector(
                               GeometricProduct(call.dot, call.wedge),
                               call.vector)]
    /\ UNCHANGED <<progVars, track, steps>>

TripleProduct ==
    /\ event = "init"
    /\ call.fn = "prod_vector.prod_vector"
    /\ event' = call.fn
    /\ call' = [A |-> call.A, B |-> call.B, C |-> call.C,
                result |-> GeometricProduct_prod_vector(
                               prod_vector(call.A, call.B), call.C),
                resultCAB |-> GeometricProduct_prod_vector(
                                  prod_vector(call.C, call.A), call.B)]
    /\ UNCHANGED <<progVars, track, steps>>

DotWedge ==
    /\ event = "init"
    /\ call.fn = "dot, wedge"
    /\ event' = call.fn
    /\ LET a == call.a
           b == call.b
       IN  call' = [a |-> a, b |-> b,
                    dot |-> Dot(a, b), dotSwapped |-> Dot(b, a),
                    wedge |-> Wedge(a, b), wedgeSwapped |-> Wedge(b, a),
                    wedgeSelf |-> Wedge(a, a),
                    wedgeRotated |-> Wedge(a, Rotate(b))]
    /\ UNCHANGED <<progVars, track, steps>>

ValidateStateJSON ==
    /\ event = "init"
    /\ call.fn = "validateStateJSON"
    /\ event' = call.fn
    /\ call' = [json |-> JsonInputs[call.input],
                result |-> validateStateJSON(JsonInputs[call.input])]
    /\ UNCHANGED <<progVars, track, steps>>

\* validateStateJSON applied to a VectorVisualizerState object of the program
ValidateOwnState ==
    /\ event = "init"
    /\ call.fn = "validateStateJSON(state)"
    /\ event' = call.fn
    /\ call' = [object |-> call.object,
                result |-> validateStateJSON(JsonOfState(heap[call.object]))]
    /\ UNCHANGED <<progVars, track, steps>>

NextEval ==
    \/ GeometricProductProdVector
    \/ TripleProduct
    \/ DotWedge
    \/ ValidateStateJSON
    \/ ValidateOwnState

SpecEval == InitEval /\ [][NextEval]_vars

-----------------------------------------------------------------------------
(* The canvas under pointer events and the undo / redo keys, with every     *)
(* endpoint as a possible hit.  Here track follows the gesture that the     *)
(* events themselves describe: it starts with a left-button pointer-down   *)
(* that hit a draggable endpoint (target) and ends with the next            *)
(* left-button pointer-up; moved tells whether one of its pointer-moves     *)
(* changed a vector, seen holds the vectors that were current before each   *)
(* of its events.  An undo() right after the pointer-up is followed too.    *)

DragHits == VectorTypes \cup {"none"}

IdleGesture == [phase |-> "idle", target |-> "none", moved |-> FALSE, seen |-> {}]

ObserveDrag(e, button, hit) ==
    LET next ==
            IF e = "onMouseDown" /\ button = 0 /\ hit \in VectorTypes
            THEN [phase |-> "gesture", target |-> hit, moved |-> FALSE,
                  seen |-> {Vector}]
            ELSE IF track.phase = "gesture" /\ e = "onMouseUp" /\ button = 0
            THEN [track EXCEPT !.phase = "done"]
            ELSE IF track.phase = "gesture" /\ e = "onMouseMove"
            THEN [track EXCEPT !.moved = @ \/ Vector' # Vector,
                               !.seen = @ \cup {Vector}]
            ELSE IF track.phase = "gesture" /\ e \in {"undo", "redo"}
            THEN [track EXCEPT !.seen = @ \cup {Vector}]
            ELSE IF track.phase = "gesture"
            THEN track
            ELSE IF track.phase = "done" /\ e = "undo"
            THEN [track EXCEPT !.phase = "undone"]
            ELSE IF progVars' = progVars
            THEN track
            ELSE IdleGesture
    IN  IF progVars' = progVars /\ next = track
        THEN UNCHANGED <<event, call, track, steps>>
        ELSE /\ steps < MaxSteps
             /\ steps' = steps + 1
             /\ event' = e
             /\ track' = next
             /\ UNCHANGED call

InitDrag ==
    /\ Constructed
    /\ event = "init"
    /\ call = <<>>
    /\ track = IdleGesture
    /\ steps = 0

DragMouseDown ==
    \E button \in Buttons, hit \in DragHits :
        /\ onMouseDown(button, hit)
        /\ ObserveDrag("onMouseDown", button, hit)

DragMouseMove ==
    \E intersects \in BOOLEAN, world \in WorldPoints :
        /\ onMouseMove(intersects, world)
        /\ ObserveDrag("onMouseMove", 0, "none")

DragMouseUp ==
    \E button \in Buttons :
        /\ onMouseUp(button)
        /\ ObserveDrag("onMouseUp", button, "none")

\* the keydown listener on Ctrl+Z
DragUndo ==
    /\ undo
    /\ ObserveDrag("undo", 0, "none")

\* the keydown listener on Ctrl+Y
DragRedo ==
    /\ redo
    /\ ObserveDrag("redo", 0, "none")

NextDrag ==
    \/ DragMouseDown
    \/ DragMouseMove
    \/ DragMouseUp
    \/ DragUndo
    \/ DragRedo

SpecDrag == InitDrag /\ [][NextDrag]_vars

-----------------------------------------------------------------------------
(* The history manager at the level of object identity.  In this            *)
(* specification heap is a memory as above, state is the reference of the   *)
(* VectorVisualizerState that this.state points to, the stacks hold         *)
(* references of VectorState objects and lastSavedState is <<>> or holds    *)
(* one.  Every `new` of a handler that stores its result allocates; the     *)
(* temporaries of the display update (rotate(), prod_vector()) are dropped  *)
(* as soon as they are made and are left out.                               *)

\* the example constant, made when the script is loaded
ExampleMemory ==
    NewVectorVisualizerState(EmptyMemory, DOT_ORTHOGONAL_BASIS_EXAMPLE)

\* this.state = new VectorVisualizerState() of the constructor
ConstructedMemory == NewVectorVisualizerState(ExampleMemory.mem, DefaultState)

\* the reference this.state.vector
VectorRef(mem) == mem.visualizerState[state].vector

\* the fields of this.state.vector
VectorAt(mem) == VectorStateAt(mem, VectorRef(mem))

\* saveState() that pushes this.state.vector itself
saveStateAtNoClone(mem) ==
    IF /\ lastSavedState # <<>>
       /\ VectorStateEquals(VectorStateAt(mem, lastSavedState[1]), VectorAt(mem))
    THEN [mem |-> mem, undoHistory |-> undoHistory,
          redoHistory |-> redoHistory, lastSavedState |-> lastSavedState]
    ELSE LET pushed == Append(undoHistory, VectorRef(mem))
         IN  [mem |-> mem,
              undoHistory |-> IF Len(pushed) > maxHistorySize
                              THEN Tail1(pushed) ELSE pushed,
              redoHistory |-> <<>>,
              lastSavedState |-> <<VectorRef(mem)>>]

\* saveState(): the memory, the stacks and the cache it leaves
saveStateAt(mem) ==
    IF /\ lastSavedState # <<>>
       /\ VectorStateEquals(VectorStateAt(mem, lastSavedState[1]), VectorAt(mem))
    THEN [mem |-> mem, undoHistory |-> undoHistory,
          redoHistory |-> redoHistory, lastSavedState |-> lastSavedState]
    ELSE LET currentState == VectorStateCloneAt(mem, VectorRef(mem))
             pushed == Append(undoHistory, currentState.ref)
         IN  [mem |-> currentState.mem,
              undoHistory |-> IF Len(pushed) > maxHistorySize
                              THEN Tail1(pushed) ELSE pushed,
              redoHistory |-> <<>>,
              lastSavedState |-> <<currentState.ref>>]

\* the stacks and the cache become those that saveState() left
Saved(saved) ==
    /\ undoHistory' = saved.undoHistory
    /\ redoHistory' = saved.redoHistory
    /\ lastSavedState' = saved.lastSavedState

\* undo()
undoAt ==
    IF Len(undoHistory) <= 0
    THEN UNCHANGED progVars
    ELSE LET pushed == VectorStateCloneAt(heap, VectorRef(heap))
             previousState == Last(undoHistory)
         IN  /\ redoHistory' = Append(redoHistory, pushed.ref)
             /\ undoHistory' = Front(undoHistory)
             /\ heap' = [pushed.mem EXCEPT
                            !.visualizerState[state].vector = previousState]
             /\ meshes' = setVectorStateMeshes(VectorStateAt(heap, previousState))
             /\ lastSavedState' = IF Len(undoHistory') > 0
                                  THEN <<Last(undoHistory')>> ELSE <<>>
             /\ UNCHANGED <<state, isDragging, dragTarget, isDraggingCanvas,
                            numberDragState>>

\* redo()
redoAt ==
    IF Len(redoHistory) <= 0
    THEN UNCHANGED progVars
    ELSE LET pushed == VectorStateCloneAt(heap, VectorRef(heap))
             nextState == Last(redoHistory)
         IN  /\ lastSavedState' = <<pushed.ref>>
             /\ undoHistory' = Append(undoHistory, pushed.ref)
             /\ redoHistory' = Front(redoHistory)
             /\ heap' = [pushed.mem EXCEPT
                            !.visualizerState[state].vector = nextState]
             /\ meshes' = setVectorStateMeshes(VectorStateAt(heap, nextState))
             /\ UNCHANGED <<state, isDragging, dragTarget, isDraggingCanvas,
                            numberDragState>>

\* loadExample(state): this.state becomes the example object
loadExampleAt(example) ==
    LET saved == saveStateAt(heap)
    IN  /\ Saved(saved)
        /\ state' = example
        /\ heap' = saved.mem
        /\ meshes' = setStateMeshes(VectorVisualizerStateAt(saved.mem, example))
        /\ UNCHANGED <<isDragging, dragTarget, isDraggingCanvas,
                       numberDragState>>

\* resetVectors(): this.state becomes a new object
resetVectorsAt ==
    LET made == NewVectorVisualizerState(heap, DefaultState)
    IN  /\ state' = made.ref
        /\ heap' = made.mem
        /\ meshes' = setStateMeshes(DefaultState)
        /\ UNCHANGED <<undoHistory, redoHistory, lastSavedState, isDragging,
                       dragTarget, isDraggingCanvas, numberDragState>>

\* normalizeVector(vectorType): this.state.vector[vectorKey] becomes the new
\* Vector2 that normalize() returns
normalizeVectorAt(vectorType) ==
    LET saved == saveStateAt(heap)
        vectorKey == ToUpperCase(vectorType)
        vector == New(saved.mem, "vector2", Normalize(VectorAt(saved.mem)[vectorKey]))
        mem == [vector.mem EXCEPT
                   !.vectorState[VectorRef(saved.mem)][vectorKey] = vector.ref]
    IN  /\ Saved(saved)
        /\ heap' = mem
        /\ meshes' = updateVectors(
                         updateVectorMeshes(meshes, vectorKey, VectorAt(mem)),
                         VectorAt(mem))
        /\ UNCHANGED <<state, isDragging, dragTarget, isDraggingCanvas,
                       numberDragState>>

\* onMouseDown(event)
onMouseDownAt(button, hit) ==
    IF button = 0
    THEN IF hit \in VectorTypes
         THEN LET saved == saveStateAt(heap)
              IN  /\ isDragging' = TRUE
                  /\ dragTarget' = hit
                  /\ Saved(saved)
                  /\ heap' = saved.mem
                  /\ UNCHANGED <<state, isDraggingCanvas, numberDragState,
                                 meshes>>
         ELSE /\ isDraggingCanvas' = TRUE
              /\ UNCHANGED <<state, heap, undoHistory, redoHistory,
                             lastSavedState, isDragging, dragTarget,
                             numberDragState, meshes>>
    ELSE UNCHANGED progVars

\* onMouseMove(event) and moveVector(): this.state.vector[vectorKey] becomes
\* a new Vector2
onMouseMoveAt(intersects, world) ==
    /\ IF isDragging /\ dragTarget # "null"
       THEN IF intersects /\ dragTarget \in VectorTypes
            THEN LET vectorKey == ToUpperCase(dragTarget)
                     vector == New(heap, "vector2", Vector2(world.x, world.y))
                     mem == [vector.mem EXCEPT
                                !.vectorState[VectorRef(heap)][vectorKey] =
                                    vector.ref]
                 IN  /\ heap' = mem
                     /\ meshes' = updateVectors(
                                      updateVectorMeshes(meshes, vectorKey,
                                                         VectorAt(mem)),
                                      VectorAt(mem))
            ELSE UNCHANGED <<heap, meshes>>
       ELSE IF isDraggingCanvas
       THEN rotateCamera /\ UNCHANGED heap
       ELSE UNCHANGED <<heap, meshes>>
    /\ UNCHANGED <<state, undoHistory, redoHistory, lastSavedState, isDragging,
                   dragTarget, isDraggingCanvas, numberDragState>>

\* onNumberMouseDown(event)
onNumberMouseDownAt(vectorType, component, clientY) ==
    LET saved == saveStateAt(heap)
    IN  /\ Saved(saved)
        /\ heap' = saved.mem
        /\ numberDragState' =
               [isDragging |-> TRUE, vector |-> vectorType,
                component |-> component, startY |-> clientY,
                startValue |-> VectorAt(saved.mem)[ToUpperCase(vectorType)][component]]
        /\ UNCHANGED <<state, isDragging, dragTarget, isDraggingCanvas, meshes>>

\* onNumberMouseMove(event) and updateVectorComponent(): the component of
\* the live Vector2 is written in place
onNumberMouseMoveAt(clientY) ==
    IF ~numberDragState.isDragging
    THEN UNCHANGED progVars
    ELSE LET vectorKey == ToUpperCase(numberDragState.vector)
             mem == WriteComponent(heap, VectorRef(heap), vectorKey,
                                   numberDragState.component,
                                   NumberDragValue(clientY))
         IN  /\ heap' = mem
             /\ meshes' = updateVectors(
                              updateVectorMeshes(meshes, vectorKey, VectorAt(mem)),
                              VectorAt(mem))
             /\ UNCHANGED <<state, undoHistory, redoHistory, lastSavedState,
                            isDragging, dragTarget, isDraggingCanvas,
                            numberDragState>>

ObserveRef(e) ==
    IF progVars' = progVars
    THEN UNCHANGED <<event, call, track, steps>>
    ELSE /\ steps < MaxSteps
         /\ steps' = steps + 1
         /\ event' = e
         /\ UNCHANGED <<call, track>>

InitRef ==
    /\ state = ConstructedMemory.ref
    /\ heap = ConstructedMemory.mem
    /\ undoHistory = <<>>
    /\ redoHistory = <<>>
    /\ lastSavedState = <<>>
    /\ isDragging = FALSE
    /\ dragTarget = "null"
    /\ isDraggingCanvas = FALSE
    /\ numberDragState = IdleNumberDragState
    /\ meshes = initMeshes(DefaultState)
    /\ event = "init"
    /\ call = <<>>
    /\ track = IdleTrack
    /\ steps = 0

RefWorldPoints == {Vector2(3 * One, 4 * One)}

RefMouseDown ==
    /\ onMouseDownAt(0, "a")
    /\ ObserveRef("onMouseDown")

RefMouseMove ==
    \E world \in RefWorldPoints :
        /\ onMouseMoveAt(TRUE, world)
        /\ ObserveRef("onMouseMove")

RefMouseUp ==
    /\ onMouseUp(0)
    /\ ObserveRef("onMouseUp")

RefNumberMouseDown ==
    \E target \in NumberTargets :
        /\ onNumberMouseDownAt(target[1], target[2], 100)
        /\ ObserveRef("onNumberMouseDown")

RefNumberMouseMove ==
    \E clientY \in ClientYs :
        /\ onNumberMouseMoveAt(clientY)
        /\ ObserveRef("onNumberMouseMove")

RefNumberMouseUp ==
    /\ onNumberMouseUp
    /\ ObserveRef("onNumberMouseUp")

RefNormalizeVector ==
    /\ normalizeVectorAt("a")
    /\ ObserveRef("normalizeVector")

RefUndo ==
    /\ undoAt
    /\ ObserveRef("undo")

RefRedo ==
    /\ redoAt
    /\ ObserveRef("redo")

RefLoadExample ==
    /\ loadExampleAt(ExampleMemory.ref)
    /\ ObserveRef("loadExample")

RefResetVectors ==
    /\ resetVectorsAt
    /\ ObserveRef("resetVectors")

NextRef ==
    \/ RefMouseDown
    \/ RefMouseMove
    \/ RefMouseUp
    \/ RefNumberMouseDown
    \/ RefNumberMouseMove
    \/ RefNumberMouseUp
    \/ RefNormalizeVector
    \/ RefUndo
    \/ RefRedo
    \/ RefLoadExample
    \/ RefResetVectors

SpecRef == InitRef /\ [][NextRef]_vars

-----------------------------------------------------------------------------
(* The display under visibility toggles, example loads, a drag of A, canvas *)
(* resizes and the frames of the render loop.  The other specifications     *)
(* leave the frames out: no handler reads needsRender or renders.  A frame  *)
(* counts as a step whether it renders or not; call holds the argument of   *)
(* toggleVisibility and, for a frame, the needsRender it found.             *)

\* updateCanvasSize(): the callback init() requests for the first frame, and
\* onWindowResize()
updateCanvasSize ==
    /\ meshes' = [meshes EXCEPT !.needsRender = TRUE]
    /\ UNCHANGED <<state, heap, undoHistory, redoHistory, lastSavedState,
                   isDragging, dragTarget, isDraggingCanvas, numberDragState>>

\* animate() that renders for the dirty flag alone
animateFlagOnly ==
    /\ meshes' = IF meshes.needsRender
                 THEN [meshes EXCEPT !.needsRender = FALSE,
                                     !.renders = @ + 1]
                 ELSE meshes
    /\ UNCHANGED <<state, heap, undoHistory, redoHistory, lastSavedState,
                   isDragging, dragTarget, isDraggingCanvas, numberDragState>>

\* animate(): one frame of the render loop
animate ==
    /\ meshes' = IF meshes.needsRender \/ isDragging
                 THEN [meshes EXCEPT !.needsRender = FALSE,
                                     !.renders = @ + 1]
                 ELSE meshes
    /\ UNCHANGED <<state, heap, undoHistory, redoHistory, lastSavedState,
                   isDragging, dragTarget, isDraggingCanvas, numberDragState>>

ObserveDisplay(e, args) ==
    IF e # "animate" /\ progVars' = progVars
    THEN UNCHANGED <<event, call, track, steps>>
    ELSE /\ steps < MaxSteps
         /\ steps' = steps + 1
         /\ event' = e
         /\ call' = args
         /\ UNCHANGED track

DisplayToggleVisibility ==
    \E vectorType \in VisibilityKeys :
        /\ toggleVisibility(vectorType)
        /\ ObserveDisplay("toggleVisibility", <<vectorType>>)

DisplayLoadExample ==
    \E example \in ExampleInputs :
        /\ loadExample(example)
        /\ ObserveDisplay("loadExample", <<>>)

DisplayMouseDown ==
    \E hit \in Hits :
        /\ onMouseDown(0, hit)
        /\ ObserveDisplay("onMouseDown", <<>>)

DisplayMouseMove ==
    \E world \in RefWorldPoints :
        /\ onMouseMove(TRUE, world)
        /\ ObserveDisplay("onMouseMove", <<>>)

DisplayMouseUp ==
    /\ onMouseUp(0)
    /\ ObserveDisplay("onMouseUp", <<>>)

DisplayUpdateCanvasSize ==
    /\ updateCanvasSize
    /\ ObserveDisplay("updateCanvasSize", <<>>)

Animate ==
    /\ animate
    /\ ObserveDisplay("animate", <<meshes.needsRender>>)

NextDisplay ==
    \/ DisplayToggleVisibility
    \/ DisplayLoadExample
    \/ DisplayMouseDown
    \/ DisplayMouseMove
    \/ DisplayMouseUp
    \/ DisplayUpdateCanvasSize
    \/ Animate

SpecDisplay == Init /\ [][NextDisplay]_vars

-----------------------------------------------------------------------------
(* Properties *)

\* the same number, or two numbers Vector2.equals takes for equal
NumberClose(a, b) == a = b \/ FLess(FAbs(FSub(a, b)), Epsilon)

Vector2Close(v, w) == NumberClose(v.x, w.x) /\ NumberClose(v.y, w.y)

VectorStateClose(s, t) ==
    /\ Vector2Close(s.A, t.A)
    /\ Vector2Close(s.B, t.B)
    /\ Vector2Close(s.C, t.C)

HistoryMutations == {"drag", "number", "normalizeVector"}

\* C1: after one mutation M through the history manager (a canvas drag, a
\* numeric drag or normalizeVector) started with no gesture in progress in
\* state S0 and ending in S1, undo() makes the live vectors equal S0
\* component-wise within epsilon, and a following redo() makes them equal S1.
C1_UndoRedoLaw ==
    track.kind \in HistoryMutations =>
        /\ track.phase = "undone" => VectorStateClose(Vector, track.s0[1].vector)
        /\ track.phase = "redone" => VectorStateClose(Vector, track.s1[1].vector)

C1_Witness ==
    /\ track.kind = "drag"
    /\ track.phase = "redone"
    /\ ~VectorStateEquals(track.s0[1].vector, track.s1[1].vector)
    /\ VectorStateClose(Vector, track.s1[1].vector)


\* a handler ran and changed the program's state
Ran(e) == event' = e /\ steps' # steps

\* C2: every operation other than undo() / redo() that changes the current
\* state (vectors or visibility flags) leaves the redo stack empty.
C2_RedoClearedByMutation ==
    [][(steps' # steps /\ event' \notin {"undo", "redo"} /\ Live' # Live)
          => redoHistory' = <<>>]_vars

\* the live vectors before the j-th mutation of the series
PreMutationState(j) == [DefaultVectorState EXCEPT !.A.x = @ + (j - 1) * One]

Min(a, b) == IF a < b THEN a ELSE b

\* the n most recent pre-mutation states after k mutations, oldest first
RecentPreMutationStates(k, n) == [i \in 1..n |-> PreMutationState(k - n + i)]

\* C3: the undo stack never holds more than 50 entries; after k successive
\* history-saving mutations with pairwise distinct states on a fresh history
\* it holds the min(k, 50) most recent pre-mutation states in chronological
\* order, so after 60 of them exactly 50, the 10 oldest evicted.
C3_HistoryCap ==
    /\ Len(undoHistory) <= maxHistorySize
    /\ (~isDragging /\ redoHistory = <<>>) =>
          undoHistory = RecentPreMutationStates(MutationsDone,
                                                Min(MutationsDone, maxHistorySize))
    /\ (~isDragging /\ redoHistory = <<>> /\ MutationsDone = 60) =>
          /\ Len(undoHistory) = 50
          /\ undoHistory[1] = PreMutationState(11)
          /\ undoHistory[50] = PreMutationState(60)

C3_Witness ==
    /\ ~isDragging
    /\ redoHistory = <<>>
    /\ MutationsDone = 60
    /\ Len(undoHistory) = 50
    /\ undoHistory[1] = PreMutationState(11)

\* C4: no two adjacent entries of the undo stack are equal under the
\* epsilon-equality of VectorState.
C4_NoAdjacentDuplicates ==
    \A i \in 1..(Len(undoHistory) - 1) :
        ~VectorStateEquals(undoHistory[i], undoHistory[i + 1])

\* pointer-down that hit a draggable endpoint, or pointer-down on a number
DownStep ==
    \/ Ran("onMouseDown") /\ isDraggingCanvas' = isDraggingCanvas
    \/ Ran("onNumberMouseDown")

MoveOrUpStep ==
    \/ Ran("onMouseMove")
    \/ Ran("onMouseUp")
    \/ Ran("onNumberMouseMove")
    \/ Ran("onNumberMouseUp")

\* C5 as claimed: the pointer-down of a gesture grows the undo stack by
\* exactly one entry, and pointer-move / pointer-up events never push.
C5_ExactlyOneEntryPerGesture ==
    [][/\ DownStep => Len(undoHistory') = Len(undoHistory) + 1
       /\ MoveOrUpStep => undoHistory' = undoHistory]_vars

Suppressed == lastSavedState # <<>> /\ VectorStateEquals(lastSavedState[1], Vector)

\* C5 amended: the pointer-down of a gesture pushes the live vectors as one
\* entry (evicting the oldest entry beyond maxHistorySize) unless they are
\* epsilon-equal to the last-saved snapshot, in which case it pushes nothing;
\* pointer-move and pointer-up events never change the undo stack.
C5_AtMostOneEntryPerGesture ==
    [][/\ DownStep =>
            IF Suppressed
            THEN undoHistory' = undoHistory
            ELSE undoHistory' \in {Append(undoHistory, Vector),
                                   Tail1(Append(undoHistory, Vector))}
       /\ MoveOrUpStep => undoHistory' = undoHistory]_vars

C5_Witness ==
    /\ event = "onMouseUp"
    /\ track.kind = "drag"
    /\ track.phase = "done"
    /\ ~VectorStateEquals(Vector, track.s0[1].vector)
    /\ undoHistory = <<track.s0[1].vector>>

\* C6: loadExample(E) pushes the pre-load vectors onto the undo stack (it is
\* the last-saved snapshot already when the push is suppressed as a
\* duplicate), and undo() right after it restores A, B, C to their pre-load
\* values (within epsilon).
C6_LoadExampleUndoable ==
    track.kind = "loadExample" =>
        /\ track.phase = "done" =>
              /\ undoHistory # <<>>
              /\ VectorStateClose(Last(undoHistory), track.s0[1].vector)
        /\ track.phase = "undone" => VectorStateClose(Vector, track.s0[1].vector)

C6_Witness ==
    /\ track.kind = "loadExample"
    /\ track.phase = "undone"
    /\ ~VectorStateEquals(track.s1[1].vector, track.s0[1].vector)
    /\ VectorStateClose(Vector, track.s0[1].vector)

\* C7: resetVectors() pushes the current vectors onto the undo stack before
\* it installs the defaults, so undo() right after a reset restores the
\* pre-reset vectors.
C7_ResetUndoable ==
    track.kind = "resetVectors" =>
        /\ track.phase = "done" =>
              /\ undoHistory # <<>>
              /\ VectorStateClose(Last(undoHistory), track.s0[1].vector)
        /\ track.phase = "undone" => VectorStateClose(Vector, track.s0[1].vector)

\* C8: after a loadExample(E) that changed the vectors and the visibility
\* flags, undo() restores the vectors and every visibility flag to their
\* pre-load values, and redo() re-installs both.
C8_FullStateUndoRedo ==
    (/\ track.kind = "loadExample"
     /\ track.phase \in {"undone", "redone"}
     /\ track.s1[1].visibility # track.s0[1].visibility
     /\ ~VectorStateEquals(track.s1[1].vector, track.s0[1].vector)) =>
        /\ track.phase = "undone" =>
              /\ VectorStateClose(Vector, track.s0[1].vector)
              /\ VisibilityFlags = track.s0[1].visibility
        /\ track.phase = "redone" =>
              /\ VectorStateClose(Vector, track.s1[1].vector)
              /\ VisibilityFlags = track.s1[1].visibility

\* C9: after any sequence of operations, loadExample(E) leaves the vectors
\* and the visibility flags at the literal values E was defined with.
C9_ExamplesAreConstants ==
    event = "loadExample" => Live = Catalog[state]

\* C10: loading the orthogonal-basis dot example sets A = (1,0), B = (0,1),
\* leaves C at its pre-load value and shows exactly a, b, brot, dot.
C10_OrthogonalBasisExample ==
    [][(Ran("loadExample") /\ state' = "DOT_ORTHOGONAL_BASIS_EXAMPLE") =>
          /\ Vector'.A = Vector2(One, 0)
          /\ Vector'.B = Vector2(0, One)
          /\ Vector'.C = Vector.C
          /\ VisibilityFlags' = Visibility({"a", "b", "brot", "dot"})]_vars

\* C11: undo() on a non-empty undo stack pushes (a clone of) the current
\* vectors onto the redo stack, makes the popped top of the undo stack the
\* current vectors, and sets the last-saved cache to the new top of the undo
\* stack, or to null when the undo stack became empty.
C11_UndoStep ==
    [][(Ran("undo") /\ undoHistory # <<>>) =>
          /\ redoHistory' = Append(redoHistory, Vector)
          /\ undoHistory' = Front(undoHistory)
          /\ Vector' = Last(undoHistory)
          /\ lastSavedState' = IF undoHistory' = <<>>
                               THEN <<>> ELSE <<Last(undoHistory')>>]_vars

C11_Witness ==
    /\ event = "undo"
    /\ undoHistory # <<>>
    /\ lastSavedState = <<Last(undoHistory)>>
    /\ redoHistory # <<>>
    /\ ~VectorStateEquals(Vector, Last(redoHistory))

\* C12: undo() with an empty undo stack and redo() with an empty redo stack
\* change nothing: vectors, visibility flags, both stacks and the last-saved
\* cache all stay as they are.
C12_EmptyStackNoOp ==
    [][/\ (Ran("undo") /\ undoHistory = <<>>) => UNCHANGED progVars
       /\ (Ran("redo") /\ redoHistory = <<>>) => UNCHANGED progVars]_vars

C12_Witness ==
    /\ event = "redo"
    /\ redoHistory = <<>>
    /\ undoHistory = <<>>
    /\ Live # DefaultState

EvalInteger(n) == n \div One

\* C13 as claimed: GeometricProduct(dot, wedge) applied to v is
\* v * dot + rotate(v) * wedge with rotate(v) = (-v.y, v.x), for all integer
\* dot, wedge and v in the bounded range.
C13_ApplyPlus ==
    event = "GeometricProduct.prod_vector" =>
        LET dot == EvalInteger(call.dot)
            wedge == EvalInteger(call.wedge)
            v == Vector2(EvalInteger(call.vector.x), EvalInteger(call.vector.y))
        IN  /\ call.result.x = (v.x * dot + (0 - v.y) * wedge) * One
            /\ call.result.y = (v.y * dot + v.x * wedge) * One

\* C13 amended: GeometricProduct(dot, wedge) applied to v is
\* v * dot - rotate(v) * wedge with rotate(v) = (-v.y, v.x), that is
\* (v.x * dot + v.y * wedge, v.y * dot - v.x * wedge), for all integer dot,
\* wedge and v in the bounded range.
C13_ApplyMinus ==
    event = "GeometricProduct.prod_vector" =>
        LET dot == EvalInteger(call.dot)
            wedge == EvalInteger(call.wedge)
            v == Vector2(EvalInteger(call.vector.x), EvalInteger(call.vector.y))
        IN  /\ call.result.x = (v.x * dot - (0 - v.y) * wedge) * One
            /\ call.result.y = (v.y * dot - v.x * wedge) * One

C13_Witness ==
    /\ event = "GeometricProduct.prod_vector"
    /\ call.dot = 2 * One
    /\ call.wedge = 3 * One
    /\ call.vector = Vector2(One, 0 - 2 * One)
    /\ call.result = Vector2(0 - 4 * One, 0 - 7 * One)

\* C14: prod_vector(A, B) applied to C is the geometric-algebra product a*b*c
\* expanded in components, ((a.b) c.x + (a^b) c.y, (a.b) c.y - (a^b) c.x),
\* for all integer A, B, C in the bounded range.
C14_TripleProductExpansion ==
    event = "prod_vector.prod_vector" =>
        LET ax == EvalInteger(call.A.x)
            ay == EvalInteger(call.A.y)
            bx == EvalInteger(call.B.x)
            by == EvalInteger(call.B.y)
            cx == EvalInteger(call.C.x)
            cy == EvalInteger(call.C.y)
            ab == ax * bx + ay * by
            aWb == ax * by - ay * bx
        IN  /\ call.result.x = (ab * cx + aWb * cy) * One
            /\ call.result.y = (ab * cy - aWb * cx) * One

C14_Witness ==
    /\ event = "prod_vector.prod_vector"
    /\ call.A = Vector2(2 * One, One)
    /\ call.B = Vector2(0 - One, One)
    /\ call.C = Vector2(One, 2 * One)
    /\ call.result = Vector2(5 * One, 0 - 5 * One)

Lacks(value, key) == Get(value, key).type \in {"undefined", "null"}

\* null, without vector or visibility, without one of A, B, C, with an x or y
\* that is not a number, or with a required visibility key not a boolean
Malformed(json) ==
    \/ json.type = "null"
    \/ Lacks(json, "vector")
    \/ Lacks(json, "visibility")
    \/ \E key \in {"A", "B", "C"} : Lacks(Get(json, "vector"), key)
    \/ \E key \in {"A", "B", "C"}, component \in {"x", "y"} :
           Get(Get(Get(json, "vector"), key), component).type # "number"
    \/ \E key \in requiredKeys :
           Get(Get(json, "visibility"), key).type # "boolean"

\* C15: validateStateJSON returns false for every input that is null, lacks
\* vector or visibility, lacks one of A, B, C, has a non-number x or y or a
\* non-boolean value at a required visibility key; evaluating it changes
\* neither the current state nor the history stacks nor the last-saved cache.
C15_ValidatorRejects ==
    [][event' = "validateStateJSON" =>
          /\ UNCHANGED progVars
          /\ Malformed(call'.json) => call'.result = FALSE]_vars

C15_Witness ==
    /\ event = "validateStateJSON"
    /\ Get(Get(call.json, "visibility"), "dot").type = "number"
    /\ ~Lacks(call.json, "vector")
    /\ call.result = FALSE

NoNaN(s) == \A key \in {"A", "B", "C"} : ~IsNaN(s[key].x) /\ ~IsNaN(s[key].y)

\* the VectorState objects the program holds
ReachableVectorStates ==
    {Vector} \cup {undoHistory[i] : i \in DOMAIN undoHistory}
             \cup {redoHistory[i] : i \in DOMAIN redoHistory}
             \cup {lastSavedState[i] : i \in DOMAIN lastSavedState}

\* s.clone().equals(s) for a VectorState s
VectorStateRoundTrip(s) ==
    LET original == NewVectorState(EmptyMemory, s)
        clone == VectorStateCloneAt(original.mem, original.ref)
    IN  VectorStateEquals(VectorStateAt(clone.mem, clone.ref), s)

\* no write to a component of s.clone() shows in the VectorState s
VectorStateIndependent(s) ==
    LET original == NewVectorState(EmptyMemory, s)
        clone == VectorStateCloneAt(original.mem, original.ref)
    IN  \A key \in {"A", "B", "C"}, component \in {"x", "y"} :
            VectorStateAt(WriteComponent(clone.mem, clone.ref, key, component,
                                         3 * One + 1),
                          original.ref) = s

\* s.clone().equals(s) for a VectorVisualizerState s
VisualizerStateRoundTrip(s) ==
    LET original == NewVectorVisualizerState(EmptyMemory, s)
        clone == VectorVisualizerStateCloneAt(original.mem, original.ref)
    IN  VectorVisualizerStateEquals(
            VectorVisualizerStateAt(clone.mem, clone.ref), s)

\* no write to a vector component or a visibility flag of s.clone() shows in
\* the VectorVisualizerState s
VisualizerStateIndependent(s) ==
    LET original == NewVectorVisualizerState(EmptyMemory, s)
        clone == VectorVisualizerStateCloneAt(original.mem, original.ref)
        cloned == clone.mem.visualizerState[clone.ref]
    IN  /\ \A key \in {"A", "B", "C"}, component \in {"x", "y"} :
              VectorVisualizerStateAt(
                  WriteComponent(clone.mem, cloned.vector, key, component,
                                 3 * One + 1),
                  original.ref) = s
        /\ \A key \in VisibilityKeys :
              VectorVisualizerStateAt(
                  WriteFlag(clone.mem, cloned.visibility, key),
                  original.ref) = s

\* C16 as claimed: for every reachable VectorState and VectorVisualizerState
\* s, states produced by normalizeVector included, s.clone().equals(s) is
\* true and changing a vector component or a visibility flag of the clone
\* leaves s unchanged.
C16_CloneRoundTrip ==
    /\ \A s \in ReachableVectorStates :
          VectorStateRoundTrip(s) /\ VectorStateIndependent(s)
    /\ VisualizerStateRoundTrip(Live) /\ VisualizerStateIndependent(Live)

\* C16 amended: for every reachable VectorState and VectorVisualizerState s
\* none of whose coordinates is NaN, s.clone().equals(s) is true, and for one
\* with a NaN coordinate it is false; for every reachable s, NaN or not,
\* changing a vector component or a visibility flag of the clone leaves s
\* unchanged.
C16_CloneRoundTripOfNumbers ==
    /\ \A s \in ReachableVectorStates :
          /\ NoNaN(s) <=> VectorStateRoundTrip(s)
          /\ VectorStateIndependent(s)
    /\ NoNaN(Vector) <=> VisualizerStateRoundTrip(Live)
    /\ VisualizerStateIndependent(Live)

C16_Witness ==
    /\ event = "normalizeVector"
    /\ call = <<"a">>
    /\ NoNaN(Vector)
    /\ Vector.A # DefaultVectorState.A
    /\ VisualizerStateRoundTrip(Live)
    /\ \E s \in ReachableVectorStates : ~NoNaN(s)

\* C17: dot(a, b) = wedge(a, rotate(b)) for all integer vectors a, b in the
\* bounded range.
C17_DotIsWedgeWithRotated ==
    event = "dot, wedge" =>
        /\ call.dot = call.wedgeRotated
        /\ call.dot = (EvalInteger(call.a.x) * EvalInteger(call.b.x)
                        + EvalInteger(call.a.y) * EvalInteger(call.b.y)) * One

C17_Witness ==
    /\ event = "dot, wedge"
    /\ call.a = Vector2(2 * One, One)
    /\ call.b = Vector2(One, 0 - One)
    /\ call.dot = One
    /\ call.wedgeRotated = One

\* C18: wedge(a, b) = -wedge(b, a), hence wedge(a, a) = 0, and
\* dot(a, b) = dot(b, a), for all integer vectors a, b in the bounded range.
C18_WedgeAntisymmetricDotSymmetric ==
    event = "dot, wedge" =>
        /\ call.wedge = 0 - call.wedgeSwapped
        /\ call.wedgeSelf = 0
        /\ call.dot = call.dotSwapped

C18_Witness ==
    /\ event = "dot, wedge"
    /\ call.wedge = 0 - 3 * One
    /\ call.wedgeSwapped = 3 * One
    /\ call.dot = call.dotSwapped
    /\ call.dot # 0

IsNaNVector(v) == IsNaN(v.x) /\ IsNaN(v.y)

\* C19: normalizeVector on a vector equal to (0,0) is not rejected, clamped
\* or special-cased: it replaces the vector by a non-finite value, and the
\* vector's norm and the published prodABC and prodCAB are non-finite too.
C19_ZeroNormalizePropagates ==
    [][\A vectorType \in VectorTypes :
          (/\ event' = "normalizeVector"
           /\ steps' # steps
           /\ call' = <<vectorType>>
           /\ Vector[ToUpperCase(vectorType)] = Vector2(0, 0)) =>
              /\ IsNaNVector(Vector'[ToUpperCase(vectorType)])
              /\ IsNaN(norm2(Vector'[ToUpperCase(vectorType)]))
              /\ IsNaNVector(meshes'.vectorProdABCMesh)
              /\ IsNaNVector(meshes'.vectorProdCABMesh)]_vars

C19_Witness ==
    /\ event = "normalizeVector"
    /\ call = <<"c">>
    /\ IsNaNVector(Vector.C)
    /\ ~IsNaNVector(Vector.A)
    /\ IsNaNVector(meshes.vectorProdABCMesh)
    /\ IsNaNVector(meshes.vectorProdCABMesh)

CompletedOperations ==
    {"onMouseMove", "onNumberMouseMove", "normalizeVector", "undo", "redo",
     "loadExample", "resetVectors"}

\* C20: after every completed operation (drag move, numeric-drag move,
\* normalizeVector, undo, redo, loadExample, resetVectors) the published
\* geometry fits the current A, B, C: Brot = rotate(B), the wedge
\* parallelogram is {origin, A, A+B, B}, the dot parallelogram is
\* {origin, A, A+rotate(B), rotate(B)}, prodABC = apply(prod_vector(A,B), C)
\* and prodCAB = apply(prod_vector(C,A), B).
C20_DerivedConsistent ==
    event \in CompletedOperations =>
        /\ meshes.vectorBRotMesh = Rotate(Vector.B)
        /\ meshes.wedgeMesh =
               [origin |-> Vector2(0, 0), vertexA |-> Vector.A,
                vertexSum |-> Add(Vector.A, Vector.B), vertexB |-> Vector.B]
        /\ meshes.dotMesh =
               [origin |-> Vector2(0, 0), vertexA |-> Vector.A,
                vertexSum |-> Add(Vector.A, Rotate(Vector.B)),
                vertexB |-> Rotate(Vector.B)]
        /\ meshes.vectorProdABCMesh =
               GeometricProduct_prod_vector(prod_vector(Vector.A, Vector.B),
                                            Vector.C)
        /\ meshes.vectorProdCABMesh =
               GeometricProduct_prod_vector(prod_vector(Vector.C, Vector.A),
                                            Vector.B)

C20_Witness ==
    /\ event = "onNumberMouseMove"
    /\ Vector.B = Vector2(0 - One, 2 * One)
    /\ meshes.vectorBRotMesh = Vector2(0 - 2 * One, 0 - One)
    /\ meshes.dotMesh.vertexSum = Vector2(0, 0)

\* C21: a completed drag can always be undone, whatever undo / redo key
\* events come between its pointer-down and its pointer-up: when one of its
\* pointer-moves changed a vector, the undo stack is non-empty at the
\* pointer-up, and one undo() makes current a state that was current earlier
\* in the gesture.
C21_DragUndoable ==
    track.moved =>
        /\ track.phase = "done" => undoHistory # <<>>
        /\ track.phase = "undone" => Vector \in track.seen

C22_LastSavedIsTop ==
    /\ lastSavedState = <<>> <=> undoHistory = <<>>
    /\ undoHistory # <<>> => lastSavedState = <<Last(undoHistory)>>

C22_Witness ==
    /\ event = "redo"
    /\ Len(undoHistory) = 2
    /\ redoHistory = <<>>
    /\ undoHistory[1] # undoHistory[2]
    /\ lastSavedState = <<undoHistory[2]>>

\* C23: in every reachable state the undo stack and the redo stack together
\* hold at most 50 (maxHistorySize) entries, so that redo(), which pushes
\* onto the undo stack without applying the cap, never makes the undo stack
\* longer than 50.
C23_CombinedHistoryBound ==
    /\ Len(undoHistory) + Len(redoHistory) <= maxHistorySize
    /\ Len(undoHistory) <= maxHistorySize

C23_Witness ==
    /\ event = "redo"
    /\ Len(undoHistory) = maxHistorySize - 1
    /\ Len(redoHistory) = 1
    /\ MutationsDone = NumMutations - 1

\* C24: whenever the undo stack is non-empty, undo() followed immediately by
\* redo() leaves the current vectors, the contents of both stacks and the
\* last-saved cache equal by value to what they were before; whenever the
\* redo stack is non-empty, redo() followed immediately by undo() does the
\* same.  (call holds what undo() or redo() found when it ran last.)
C24_UndoRedoInverse ==
    [][/\ (event = "undo" /\ call[1].undoHistory # <<>> /\ Ran("redo")) =>
              HistorySnapshot' = call[1]
       /\ (event = "redo" /\ call[1].redoHistory # <<>> /\ Ran("undo")) =>
              HistorySnapshot' = call[1]]_vars

C24_Witness ==
    /\ event = "redo"
    /\ track.phase = "redone"
    /\ call[1].redoHistory # <<>>
    /\ call[1].vector # Vector
    /\ Vector = track.s1[1].vector
    /\ Len(undoHistory) = 2
    /\ lastSavedState = <<undoHistory[2]>>

\* the VectorState objects on the undo stack and on the redo stack
OnStack ==
    {undoHistory[i] : i \in DOMAIN undoHistory}
        \cup {redoHistory[i] : i \in DOMAIN redoHistory}

\* C25: once a snapshot is on the undo or the redo stack its A, B, C values
\* never change while it stays there, whatever drag moves, in-place writes
\* of a numeric drag, normalizes, example loads, resets, undos or redos are
\* applied to the live state.
C25_SnapshotsIsolated ==
    [][\A snapshot \in OnStack \cap OnStack' :
          VectorStateAt(heap', snapshot) = VectorStateAt(heap, snapshot)]_vars

C25_Witness ==
    /\ event = "onNumberMouseMove"
    /\ Len(undoHistory) = 2
    /\ VectorStateAt(heap, undoHistory[2]).B = DefaultVectorState.B
    /\ VectorAt(heap).B # DefaultVectorState.B
    /\ VectorStateAt(heap, undoHistory[2]).A = VectorAt(heap).A
    /\ VectorStateAt(heap, undoHistory[1]).A # VectorAt(heap).A

\* C26: validateStateJSON returns true for the default VectorVisualizerState
\* and for every catalog example state, whose visibility keys are a, b, c,
\* brot, dot, wedge, prodABC and prodCAB.
C26_ValidatorAcceptsOwnStates ==
    event = "validateStateJSON(state)" => call.result = TRUE

\* x * x + y * y of a vector with integer coordinates
SquaredNorm(v) ==
    EvalInteger(v.x) * EvalInteger(v.x) + EvalInteger(v.y) * EvalInteger(v.y)

IsIntegerVector(v) ==
    /\ v.x = EvalInteger(v.x) * One
    /\ v.y = EvalInteger(v.y) * One

\* C28: for all integer A, B, C in the bounded range the squared Euclidean
\* norm of prodABC and the squared Euclidean norm of prodCAB both equal
\* |A|^2 * |B|^2 * |C|^2.
C28_TripleProductNorms ==
    event = "prod_vector.prod_vector" =>
        LET expected == SquaredNorm(call.A) * SquaredNorm(call.B)
                            * SquaredNorm(call.C)
        IN  /\ IsIntegerVector(call.result)
            /\ IsIntegerVector(call.resultCAB)
            /\ SquaredNorm(call.result) = expected
            /\ SquaredNorm(call.resultCAB) = expected

C28_Witness ==
    /\ event = "prod_vector.prod_vector"
    /\ call.A = Vector2(2 * One, One)
    /\ call.B = Vector2(0 - One, One)
    /\ call.C = Vector2(One, 2 * One)
    /\ call.resultCAB = Vector2(0 - 7 * One, One)
    /\ call.result # call.resultCAB
    /\ SquaredNorm(call.result) = 50

\* the .visible of every mesh that the flags call for: a dashed helper is
\* visible exactly when its parallelogram flag and its operand flag are true
VisibleFor(visibility) ==
    [mesh \in MeshNames |->
        CASE mesh = "vectorAMesh" -> visibility["a"]
          [] mesh = "vectorBMesh" -> visibility["b"]
          [] mesh = "vectorCMesh" -> visibility["c"]
          [] mesh = "vectorBRotMesh" -> visibility["brot"]
          [] mesh = "dotMesh" -> visibility["dot"]
          [] mesh = "wedgeMesh" -> visibility["wedge"]
          [] mesh = "vectorADashedMeshWedge" -> visibility["wedge"] /\ visibility["a"]
          [] mesh = "vectorBDashedMesh" -> visibility["wedge"] /\ visibility["b"]
          [] mesh = "vectorADashedMeshDot" -> visibility["dot"] /\ visibility["a"]
          [] mesh = "vectorBRotDashedMesh" -> visibility["dot"] /\ visibility["brot"]
          [] mesh = "vectorProdABCMesh" -> visibility["prodABC"]
          [] mesh = "vectorProdCABMesh" -> visibility["prodCAB"]]

\* C29: toggleVisibility(k) flips visibility flag k and no other; the vectors
\* A, B, C, the undo stack, the redo stack and the last-saved cache are
\* unchanged, and the visibility of the meshes is refreshed from the flags
\* (each dashed helper visible exactly when both its parallelogram flag and
\* its operand flag are true), with the dirty flag set.
C29_ToggleFrame ==
    [][\A k \in VisibilityKeys :
          (event' = "toggleVisibility" /\ steps' # steps /\ call' = <<k>>) =>
              /\ VisibilityFlags' = [VisibilityFlags EXCEPT ![k] = ~@]
              /\ Vector' = Vector
              /\ undoHistory' = undoHistory
              /\ redoHistory' = redoHistory
              /\ lastSavedState' = lastSavedState
              /\ \A mesh \in MeshNames :
                    meshes'.visible[mesh] = VisibleFor(VisibilityFlags')[mesh]
              /\ meshes'.needsRender]_vars

C29_Witness ==
    /\ event = "toggleVisibility"
    /\ call = <<"a">>
    /\ ~VisibilityFlags["a"]
    /\ ~VisibilityFlags["wedge"]
    /\ VisibilityFlags["dot"]
    /\ ~meshes.visible["vectorADashedMeshDot"]
    /\ meshes.visible["vectorBRotDashedMesh"]
    /\ undoHistory # <<>>

\* C30 as claimed: a frame redraws only when the dirty flag is set: a frame
\* that finds the flag clear performs no redraw, and a frame that redraws
\* clears the flag.
C30_RedrawOnlyWhenDirty ==
    [][(event' = "animate" /\ steps' # steps) =>
          /\ ~meshes.needsRender => meshes'.renders = meshes.renders
          /\ meshes'.renders # meshes.renders => ~meshes'.needsRender]_vars

\* C30 amended: a frame redraws exactly when the dirty flag is set or a
\* vector drag is in progress; a frame that finds the flag clear and no drag
\* in progress performs no redraw; a frame that redraws does so once and
\* clears the flag, and a frame changes nothing else.
C30_RedrawWhenDirtyOrDragging ==
    [][(event' = "animate" /\ steps' # steps) =>
          /\ IF meshes.needsRender \/ isDragging
             THEN /\ meshes'.renders = meshes.renders + 1
                  /\ ~meshes'.needsRender
             ELSE meshes' = meshes
          /\ [meshes' EXCEPT !.renders = 0, !.needsRender = FALSE]
                 = [meshes EXCEPT !.renders = 0, !.needsRender = FALSE]
          /\ Live' = Live
          /\ isDragging' = isDragging]_vars

C30_Witness ==
    /\ event = "animate"
    /\ call = <<FALSE>>
    /\ isDragging
    /\ meshes.renders = 3
    /\ ~meshes.needsRender
    /\ Vector # DefaultVectorState

====
